---- MODULE Spec2Model ----
(***************************************************************************)
(* State-machine model of the boids flocking simulation in                 *)
(* src/src/kernel.cu: the three step functions (brute force, scattered     *)
(* uniform grid, coherent uniform grid), the grid tables they build and    *)
(* the position integrator.                                                *)
(*                                                                         *)
(* Floats are modelled as fixed-point integers: a position has PosFP units *)
(* per 1.0f and a velocity VelFP units per 1.0f, so that the rule scales   *)
(* 0.01f and 0.1f applied to a position difference are exact.  A float     *)
(* operation whose exact result is not on the lattice rounds toward zero.  *)
(* A glm::vec3 is a triple <<x, y, z>>.  A device array of N elements is a *)
(* function on 0..N-1.  A time delta is a whole number of time units.      *)
(***************************************************************************)
EXTENDS Integers, Sequences, FiniteSets, TLC

(***************************************************************************)
(* Bounds of the model.                                                    *)
(***************************************************************************)
\* largest particle count handed to initSimulation
MaxN == 3
\* largest number of step calls in one run
MaxSteps == 2
\* how many words just outside the key array may happen to equal its edge key
MaxOOB == 0

(***************************************************************************)
(* Fixed-point arithmetic.                                                 *)
(***************************************************************************)
PosFP == 100

VelFP == 10000

\* velocity units per position unit
VelPerPos == VelFP \div PosFP

Abs(a) == IF a < 0 THEN -a ELSE a

\* C-style division (rounds toward zero), b > 0
DivT(a, b) == IF a >= 0 THEN a \div b ELSE -((-a) \div b)

Max2(a, b) == IF a > b THEN a ELSE b

vec3(x, y, z) == <<x, y, z>>

VAdd(a, b) == <<a[1] + b[1], a[2] + b[2], a[3] + b[3]>>

VSub(a, b) == <<a[1] - b[1], a[2] - b[2], a[3] - b[3]>>

VMul(a, k) == <<a[1] * k, a[2] * k, a[3] * k>>

VDiv(a, k) == <<DivT(a[1], k), DivT(a[2], k), DivT(a[3], k)>>

\* squared length
Len2(a) == a[1] * a[1] + a[2] * a[2] + a[3] * a[3]

RECURSIVE SqrtSearch(_, _, _)
\* least r in lo..hi with r*r >= x
SqrtSearch(x, lo, hi) ==
  IF lo >= hi THEN lo
  ELSE LET mid == (lo + hi) \div 2
       IN  IF mid * mid >= x THEN SqrtSearch(x, lo, mid)
           ELSE SqrtSearch(x, mid + 1, hi)

\* glm::length of a vector, rounded up to the lattice
Length(a) == SqrtSearch(Len2(a), 0, Abs(a[1]) + Abs(a[2]) + Abs(a[3]))

(***************************************************************************)
(* Configuration (#define block).                                          *)
(***************************************************************************)
rule1Distance == 5 * PosFP
rule2Distance == 3 * PosFP
rule3Distance == 5 * PosFP

\* v * rule1Scale (0.01f) and v * rule2Scale (0.1f): v a position difference,
\* the product a velocity
rule1Scale(v) == VDiv(VMul(v, VelPerPos), 100)

rule2Scale(v) == VDiv(VMul(v, VelPerPos), 10)

\* v * rule3Scale (0.1f): v a velocity
rule3Scale(v) == VDiv(v, 10)

maxSpeed == 1 * VelFP

scene_scale == 100 * PosFP

\* the redundant guard distance of rule 2 (100.f)
rule2Guard == 100 * PosFP

(***************************************************************************)
(* Grid parameters computed in initSimulation.                             *)
(***************************************************************************)
gridCellWidth == 2 * Max2(Max2(rule1Distance, rule2Distance), rule3Distance)

\* a grid that ends exactly at the scene bounds, without the extra cell
halfSideCountNoMargin == scene_scale \div gridCellWidth

halfSideCount == (scene_scale \div gridCellWidth) + 1

gridSideCount == 2 * halfSideCount

gridCellCount == gridSideCount * gridSideCount * gridSideCount

halfGridWidth == gridCellWidth * halfSideCount

(***************************************************************************)
(* Inputs the model draws from.                                            *)
(***************************************************************************)
\* positions kernGenerateRandomPosArray may produce (inside the start area)
PosChoices ==
  { vec3(0, 0, 0), vec3(1 * PosFP, 0, 0), vec3(-2 * PosFP, 0, 0),
    vec3(9950, 9950, -9950) }

\* contents of the never-initialised velocity buffers after cudaMalloc
VelChoices == { vec3(0, 0, 0), vec3(9000, 9000, -9000) }

\* the position arrays the model starts from: N different points
StartPositions(N) ==
  { f \in [0 .. (N - 1) -> PosChoices] :
      \A a, b \in 0 .. (N - 1) : f[a] = f[b] => a = b }

\* time deltas handed to the step functions
DtChoices == { 1, 30 }

\* what a read outside an int array may yield: no valid index, or index 0
JunkWords == {-1, 0}

\* what a read outside pos / vel yields
JunkVec == vec3(0, 0, 0)

VARIABLES
  phase,                     \* "Uninitialized", "Initialized", "TornDown"
  numObjects,
  dev_pos, dev_vel1, dev_vel2,
  devBoidIndex,              \* particle index per sorted slot
  devGridCellnumber,         \* cell id per sorted slot
  dev_gridCellStartIndices, dev_gridCellEndIndices,
  gridCellIndex,             \* cell id -> start offset; absent entries hold -1
  gridMinimum,
  \* history variables: the call that produced the current state
  lastOp, lastDt, prevPos, prevVel, rawVel, steps,
  \* the host program and the default stream, call by call
  hostFn,                    \* the public function that is running, or "idle"
  hostPc,                    \* the next call of that function, 0 when idle
  stream,                    \* the work queued on the default stream, oldest first
  alive,                     \* the device buffers that are allocated
  exited,                    \* exit(EXIT_FAILURE) has ended the run
  lastError,                 \* what cudaGetLastError would report
  failedAt,                  \* the kind of the first call that failed, or "none"
  \* history variables of the host program
  ranAfterFailure, ranReleased, stageLog, roleLog, hazard

\* the contents of the device buffers and what the last step left of them
dataVars ==
  << dev_pos, dev_vel1, dev_vel2, devBoidIndex, devGridCellnumber,
     dev_gridCellStartIndices, dev_gridCellEndIndices, gridCellIndex,
     gridMinimum, lastOp, lastDt, prevPos, prevVel, rawVel >>

\* the host program, the stream and their history
hostVars ==
  << hostFn, hostPc, stream, alive, exited, lastError, failedAt,
     ranAfterFailure, ranReleased, stageLog, roleLog, hazard >>

vars == << phase, numObjects, steps, dataVars, hostVars >>

Idx(N) == 0 .. (N - 1)

RECURSIVE TabOn(_, _)
\* the function f restricted to the finite set S, written out entry by entry
TabOn(f, S) ==
  IF S = {} THEN << >>
  ELSE LET x == CHOOSE x \in S : TRUE
       IN  (x :> f[x]) @@ TabOn(f, S \ {x})

\* the function f itself, with every entry computed once
Tab(f) == TabOn(f, DOMAIN f)

(***************************************************************************)
(* Brute-force rule evaluation.                                            *)
(***************************************************************************)
\* a distance test that also accepts the distance d itself
BoidDistanceInclusive(p1, p2, d) == Len2(VSub(p1, p2)) <= d * d

\* glm::length(p1 - p2) < d
BoidDistanceCalculation(p1, p2, d) == Len2(VSub(p1, p2)) < d * d

RECURSIVE Rule1Loop(_, _, _, _, _)
\* the loop of rule 1 from index i on; acc = [sum, count]
Rule1Loop(N, iSelf, pos, i, acc) ==
  IF i >= N THEN acc
  ELSE IF i # iSelf /\ BoidDistanceCalculation(pos[i], pos[iSelf], rule1Distance)
       THEN Rule1Loop(N, iSelf, pos, i + 1,
                      [sum |-> VAdd(acc.sum, pos[i]), count |-> acc.count + 1])
       ELSE Rule1Loop(N, iSelf, pos, i + 1, acc)

RECURSIVE Rule2Loop(_, _, _, _, _)
\* the loop of rule 2 from index j on; acc = cVector
Rule2Loop(N, iSelf, pos, j, acc) ==
  IF j >= N THEN acc
  ELSE IF /\ j # iSelf
          /\ BoidDistanceCalculation(pos[j], pos[iSelf], rule2Distance)
          /\ BoidDistanceCalculation(pos[j], pos[iSelf], rule2Guard)
       THEN Rule2Loop(N, iSelf, pos, j + 1, VSub(acc, VSub(pos[j], pos[iSelf])))
       ELSE Rule2Loop(N, iSelf, pos, j + 1, acc)

RECURSIVE Rule3Loop(_, _, _, _, _, _)
\* the loop of rule 3 from index k on; acc = [sum, count]
Rule3Loop(N, iSelf, pos, vel, k, acc) ==
  IF k >= N THEN acc
  ELSE IF k # iSelf /\ BoidDistanceCalculation(pos[k], pos[iSelf], rule3Distance)
       THEN Rule3Loop(N, iSelf, pos, vel, k + 1,
                      [sum |-> VAdd(acc.sum, vel[k]), count |-> acc.count + 1])
       ELSE Rule3Loop(N, iSelf, pos, vel, k + 1, acc)

\* the final expression shared by all three strategies
FinalSpeed(thisPos, thisVel, center, count1, cVector, pvel, count3) ==
  LET perceivedCenter == IF count1 # 0 THEN VDiv(center, count1) ELSE thisPos
      perceivedVelocity == IF count3 # 0 THEN VDiv(pvel, count3) ELSE pvel
  IN  VAdd(VAdd(VAdd(thisVel, rule1Scale(VSub(perceivedCenter, thisPos))),
                rule2Scale(cVector)),
           rule3Scale(perceivedVelocity))

computeVelocityChange(N, iSelf, pos, vel) ==
  LET zero == [sum |-> vec3(0, 0, 0), count |-> 0]
      r1 == Rule1Loop(N, iSelf, pos, 0, zero)
      r2 == Rule2Loop(N, iSelf, pos, 0, vec3(0, 0, 0))
      r3 == Rule3Loop(N, iSelf, pos, vel, 0, zero)
  IN  FinalSpeed(pos[iSelf], vel[iSelf], r1.sum, r1.count, r2, r3.sum, r3.count)

\* glm::normalize(v) * maxSpeed
Normalize(v) == VDiv(VMul(v, VelFP), Length(v))

\* a clamp of each component on its own (glm::clamp) instead of the length
ClampSpeedPerComponent(v) ==
  LET cl(c) == IF c > maxSpeed THEN maxSpeed ELSE IF c < -maxSpeed THEN -maxSpeed ELSE c
  IN  vec3(cl(v[1]), cl(v[2]), cl(v[3]))

\* the speed clamp at the end of each velocity kernel
ClampSpeed(v) ==
  IF Len2(v) > maxSpeed * maxSpeed
  THEN VDiv(VMul(Normalize(v), maxSpeed), VelFP)
  ELSE v

\* the unclamped velocities of the brute-force kernel
BruteForceRaw(N, pos, vel1) ==
  Tab([i \in Idx(N) |-> computeVelocityChange(N, i, pos, vel1)])

\* the contents of vel2 after kernUpdateVelocityBruteForce
kernUpdateVelocityBruteForce(N, pos, vel1) ==
  Tab([i \in Idx(N) |-> ClampSpeed(computeVelocityChange(N, i, pos, vel1))])

(***************************************************************************)
(* Position integration.                                                   *)
(***************************************************************************)
\* a wrap that forgets the upper bound
WrapCoordLowerOnly(c) == IF c < -scene_scale THEN scene_scale ELSE c

WrapCoord(c) ==
  LET a == IF c < -scene_scale THEN scene_scale ELSE c
  IN  IF a > scene_scale THEN -scene_scale ELSE a

UpdatePosOne(p, v, dt) ==
  LET q == VAdd(p, VDiv(VMul(v, dt), VelPerPos))
  IN  vec3(WrapCoord(q[1]), WrapCoord(q[2]), WrapCoord(q[3]))

\* the contents of pos after kernUpdatePos
kernUpdatePos(N, dt, pos, vel) ==
  Tab([i \in Idx(N) |-> UpdatePosOne(pos[i], vel[i], dt)])

(***************************************************************************)
(* Uniform grid: cell ids, sort, cell ranges, cell heads.                  *)
(***************************************************************************)
gridIndex3Dto1D(x, y, z, gridResolution) ==
  IF \/ x >= gridResolution \/ x < 0
     \/ y >= gridResolution \/ y < 0
     \/ z >= gridResolution \/ z < 0
  THEN -1
  ELSE x + y * gridResolution + z * gridResolution * gridResolution

\* (int) floor((p - gridMin) * inverseCellWidth)
CellCoord(p, gmin) == (p - gmin) \div gridCellWidth

\* the cell id kernComputeIndices stores for a particle at position p
CellOf(p, gridMin) ==
  gridIndex3Dto1D(CellCoord(p[1], gridMin[1]), CellCoord(p[2], gridMin[2]),
                  CellCoord(p[3], gridMin[3]), gridSideCount)

\* the two arrays kernComputeIndices writes
kernComputeIndices(N, gridMin, pos) ==
  [indices |-> Tab([i \in Idx(N) |-> i]),
   gridIndices |-> Tab([i \in Idx(N) |-> CellOf(pos[i], gridMin)])]

Perms(N) == { f \in [Idx(N) -> Idx(N)] : \A a, b \in Idx(N) : f[a] = f[b] => a = b }

NonDecreasing(N, keys) == \A a \in Idx(N) : a + 1 < N => keys[a] <= keys[a + 1]

\* the orders thrust::sort_by_key may leave the pairs in: perm[k] is the
\* unsorted offset of the pair that lands in sorted slot k (ties in any order)
SortOrders(N, keys) ==
  { perm \in Perms(N) : NonDecreasing(N, [k \in Idx(N) |-> keys[perm[k]]]) }

\* a sort that orders the keys and leaves the values where they were
SortKeysOnly(N, keys, values, perm) ==
  [keys |-> Tab([k \in Idx(N) |-> keys[perm[k]]]), values |-> values]

\* keys and values after thrust::sort_by_key placed the pairs in order perm
sort_by_key(N, keys, values, perm) ==
  [keys |-> Tab([k \in Idx(N) |-> keys[perm[k]]]),
   values |-> Tab([k \in Idx(N) |-> values[perm[k]]])]

\* a word no cell id equals: what memory far outside the key array holds
JunkKey == -2

\* particleGridIndices[i], also for the offsets outside the array the range
\* kernel reads: oob.below words before and oob.above words after the array
\* happen to hold the neighbouring key
KeyAt(N, keys, oob, i) ==
  IF i \in Idx(N) THEN keys[i]
  ELSE IF i < 0 THEN (IF -i <= oob.below THEN keys[0] ELSE JunkKey)
  ELSE IF i - (N - 1) <= oob.above THEN keys[N - 1] ELSE JunkKey

RECURSIVE WalkDown(_, _, _, _)
\* while (key[k - 1] == key[k]) k--;
WalkDown(N, keys, oob, k) ==
  IF KeyAt(N, keys, oob, k - 1) = KeyAt(N, keys, oob, k)
  THEN WalkDown(N, keys, oob, k - 1)
  ELSE k

RECURSIVE WalkUp(_, _, _, _)
\* while (key[p] == key[p + 1]) p++;
WalkUp(N, keys, oob, p) ==
  IF KeyAt(N, keys, oob, p) = KeyAt(N, keys, oob, p + 1)
  THEN WalkUp(N, keys, oob, p + 1)
  ELSE p

\* the value thread index writes to gridCellStartIndices[index]
CellStartOf(N, keys, oob, index) ==
  IF index = 0 THEN index
  ELSE IF KeyAt(N, keys, oob, index - 1) # KeyAt(N, keys, oob, index) THEN index
  ELSE WalkDown(N, keys, oob, index) - 1

\* the value thread index writes to gridCellEndIndices[index]
CellEndOf(N, keys, oob, index) ==
  IF index # 0 /\ index = N - 1 THEN index
  ELSE IF KeyAt(N, keys, oob, index) # KeyAt(N, keys, oob, index + 1) THEN index
  ELSE WalkUp(N, keys, oob, index) + 1

kernIdentifyCellStartEnd(N, keys, oob) ==
  [start |-> Tab([i \in Idx(N) |-> CellStartOf(N, keys, oob, i)]),
   end |-> Tab([i \in Idx(N) |-> CellEndOf(N, keys, oob, i)])]

\* a step that does not reset the table
KeepGridCellIndex(table) == table

\* gridCellIndex after the reset kernel: every entry holds -1
InitializeGridCellIndex(table) == Tab([c \in DOMAIN table |-> -1])

\* gridCellIndex[c]
CellHead(table, c) == IF c \in DOMAIN table THEN table[c] ELSE -1

\* the outcomes of the unordered writes of renewGridCellIndex: last[i] is the
\* thread whose write to gridCellIndex[keys[i]] lands last
LastWriters(N, keys) ==
  { last \in [Idx(N) -> Idx(N)] :
      \A i, j \in Idx(N) : /\ keys[last[i]] = keys[i]
                           /\ (keys[i] = keys[j] => last[i] = last[j]) }

\* gridCellIndex after renewGridCellIndex (a write at index -1 falls outside
\* the table)
renewGridCellIndex(N, start, table, keys, last) ==
  LET written == { keys[i] : i \in Idx(N) } \ {-1}
      slotOf(c) == CHOOSE i \in Idx(N) : keys[i] = c
  IN  Tab([c \in (DOMAIN table) \cup written |->
             IF c \in written THEN start[last[slotOf(c)]] ELSE table[c]])

(***************************************************************************)
(* Grid neighbour search.                                                  *)
(***************************************************************************)
\* the offsets a loop "for (n = a; n <= b; n++)" visits, in order
Span(a, b) == IF b < a THEN << >> ELSE [t \in 1 .. (b - a + 1) |-> a + t - 1]

\* the offsets of the own-cell loop: startIndex..endIndex without index
OwnCellSlots(index, start, end) ==
  SelectSeq(Span(start[index], end[index]), LAMBDA i : i # index)

\* gridCellEndIndices[s]; a read outside the array yields the junk word
EndAt(N, end, oob, s) == IF s \in Idx(N) THEN end[s] ELSE oob.junk

\* the id of the t-th cell (t in 1..27) the neighbour loop of a particle in
\* cell (x, y, z) looks at: x outermost, z innermost; -1 outside the grid
NeighborCell(x, y, z, t) ==
  gridIndex3Dto1D(x - 1 + ((t - 1) \div 9), y - 1 + (((t - 1) \div 3) % 3),
                  z - 1 + ((t - 1) % 3), gridSideCount)

\* the iterations of the neighbour loop that pass its three tests
VisitedCells(x, y, z, gridIndex, table) ==
  { t \in 1 .. 27 :
      LET testGridIndexBeighbor == NeighborCell(x, y, z, t)
      IN  /\ testGridIndexBeighbor # -1
          /\ testGridIndexBeighbor # gridIndex
          /\ CellHead(table, testGridIndexBeighbor) # -1 }

RECURSIVE NeighborSlots(_, _, _, _, _, _, _, _)
\* the offsets the neighbour loop tests in the iterations T, in loop order
NeighborSlots(N, x, y, z, end, table, oob, T) ==
  IF T = {} THEN << >>
  ELSE LET t == CHOOSE u \in T : \A w \in T : u <= w
           startPoint == CellHead(table, NeighborCell(x, y, z, t))
           endPoint == EndAt(N, end, oob, startPoint)
       IN  Span(startPoint, endPoint)
             \o NeighborSlots(N, x, y, z, end, table, oob, T \ {t})

\* every sorted offset thread index tests, in the order it tests them
CandidateSlots(N, index, keys, start, end, table, oob) ==
  LET gridIndex == keys[index]
      gridIdx3Z == DivT(gridIndex, gridSideCount * gridSideCount)
      gridIdx3Y == DivT(gridIndex - gridIdx3Z * gridSideCount * gridSideCount,
                        gridSideCount)
      gridIdx3X == gridIndex - gridIdx3Z * gridSideCount * gridSideCount
                     - gridIdx3Y * gridSideCount
  IN  OwnCellSlots(index, start, end)
        \o NeighborSlots(N, gridIdx3X, gridIdx3Y, gridIdx3Z, end, table, oob,
                         VisitedCells(gridIdx3X, gridIdx3Y, gridIdx3Z, gridIndex,
                                      table))

RECURSIVE RuleAccumulate(_, _, _, _, _)
\* the three rule tests applied to the candidates cpos[t], cvel[t], t = n..
RuleAccumulate(cpos, cvel, currentPosition, n, acc) ==
  IF n > Len(cpos) THEN acc
  ELSE LET testPos == cpos[n]
           testVel == cvel[n]
           in1 == BoidDistanceCalculation(testPos, currentPosition, rule1Distance)
           in2 == /\ BoidDistanceCalculation(testPos, currentPosition, rule2Distance)
                  /\ BoidDistanceCalculation(testPos, currentPosition, rule2Guard)
           in3 == BoidDistanceCalculation(testPos, currentPosition, rule3Distance)
       IN  RuleAccumulate(cpos, cvel, currentPosition, n + 1,
             [center |-> IF in1 THEN VAdd(acc.center, testPos) ELSE acc.center,
              count1 |-> IF in1 THEN acc.count1 + 1 ELSE acc.count1,
              vectorC |-> IF in2 THEN VSub(acc.vectorC, VSub(testPos, currentPosition))
                          ELSE acc.vectorC,
              pvel |-> IF in3 THEN VAdd(acc.pvel, testVel) ELSE acc.pvel,
              count3 |-> IF in3 THEN acc.count3 + 1 ELSE acc.count3])

\* the velocity computed for a focal particle from its candidate lists
GridFinalSpeed(currentPosition, currentVelocity, cpos, cvel) ==
  LET acc == RuleAccumulate(cpos, cvel, currentPosition, 1,
               [center |-> vec3(0, 0, 0), count1 |-> 0, vectorC |-> vec3(0, 0, 0),
                pvel |-> vec3(0, 0, 0), count3 |-> 0])
  IN  FinalSpeed(currentPosition, currentVelocity, acc.center, acc.count1,
                 acc.vectorC, acc.pvel, acc.count3)

\* particleArrayIndices[n]; a read outside the array yields the junk word
BoidAt(N, particleArrayIndices, oob, n) ==
  IF n \in Idx(N) THEN particleArrayIndices[n] ELSE oob.junk

\* arr[b] of a vec3 array; a read outside the array yields JunkVec
VecAt(N, arr, b) == IF b \in Idx(N) THEN arr[b] ELSE JunkVec

newUpdateVelocity(N, index, boidIndex, pos, vel, particleArrayIndices, keys, start, end, table, oob) ==
  LET slots == CandidateSlots(N, index, keys, start, end, table, oob)
      cpos == Tab([t \in 1 .. Len(slots) |->
                     VecAt(N, pos, BoidAt(N, particleArrayIndices, oob, slots[t]))])
      cvel == Tab([t \in 1 .. Len(slots) |->
                     VecAt(N, vel, BoidAt(N, particleArrayIndices, oob, slots[t]))])
  IN  GridFinalSpeed(pos[boidIndex], vel[boidIndex], cpos, cvel)

\* the unclamped velocity of each sorted slot in the scattered kernel
ScatteredRaw(N, pos, vel1, particleArrayIndices, keys, start, end, table, oob) ==
  Tab([index \in Idx(N) |->
         newUpdateVelocity(N, index, particleArrayIndices[index], pos, vel1,
                           particleArrayIndices, keys, start, end, table, oob)])

\* vel2 after kernUpdateVelNeighborSearchScattered: thread index writes slot
\* particleArrayIndices[index]; slots no thread writes keep their content
kernUpdateVelNeighborSearchScattered(N, raw, particleArrayIndices, vel2) ==
  Tab([b \in Idx(N) |->
         IF \E index \in Idx(N) : particleArrayIndices[index] = b
         THEN ClampSpeed(raw[CHOOSE index \in Idx(N) : particleArrayIndices[index] = b])
         ELSE vel2[b]])

\* a gather that rearranges the positions and leaves the velocities in place
RearangePosOnly(N, particleArrayIndices, pos, vel) ==
  [arrPos |-> Tab([index \in Idx(N) |-> pos[particleArrayIndices[index]]]),
   arrVel |-> vel]

RearangeVelAndPos(N, particleArrayIndices, pos, vel) ==
  [arrPos |-> Tab([index \in Idx(N) |-> pos[particleArrayIndices[index]]]),
   arrVel |-> Tab([index \in Idx(N) |-> vel[particleArrayIndices[index]]])]

CoherentUpDateVelocity(N, index, pos, vel, keys, start, end, table, oob) ==
  LET slots == CandidateSlots(N, index, keys, start, end, table, oob)
      cpos == Tab([t \in 1 .. Len(slots) |-> VecAt(N, pos, slots[t])])
      cvel == Tab([t \in 1 .. Len(slots) |-> VecAt(N, vel, slots[t])])
  IN  GridFinalSpeed(pos[index], vel[index], cpos, cvel)

\* the unclamped velocity of each sorted slot in the coherent kernel
CoherentRaw(N, pos, vel1, keys, start, end, table, oob) ==
  Tab([index \in Idx(N) |->
         CoherentUpDateVelocity(N, index, pos, vel1, keys, start, end, table, oob)])

\* vel2 after kernUpdateVelNeighborSearchCoherent: thread index writes slot index
kernUpdateVelNeighborSearchCoherent(N, raw) ==
  Tab([index \in Idx(N) |-> ClampSpeed(raw[index])])

(***************************************************************************)
(* The step functions, as functions of the state they read and of the      *)
(* outcomes the hardware chooses (sort tie order, write order, junk words).*)
(***************************************************************************)
\* the junk around the arrays matters only when a run of equal keys touches
\* an edge of the key array: only then is a word outside the arrays read
OobChoices(N, keys) ==
  LET lowRun == N >= 2 /\ keys[0] = keys[1]
      highRun == N = 1 \/ keys[N - 2] = keys[N - 1]
  IN  [below : IF lowRun THEN 0 .. MaxOOB ELSE {0},
       above : IF highRun THEN 0 .. MaxOOB ELSE {0},
       junk : IF lowRun \/ highRun THEN JunkWords ELSE {-1}]

\* the grid tables both grid strategies build before the velocity kernel
GridTables(N, gridMin, pos, table, perm, last, oob) ==
  LET ci == kernComputeIndices(N, gridMin, pos)
      reset == InitializeGridCellIndex(table)
      srt == sort_by_key(N, ci.gridIndices, ci.indices, perm)
      se == kernIdentifyCellStartEnd(N, srt.keys, oob)
  IN  [boid |-> srt.values, keys |-> srt.keys, start |-> se.start, end |-> se.end,
       table |-> renewGridCellIndex(N, se.start, reset, srt.keys, last)]

\* the kernels of stepSimulationScatteredGrid up to the velocity kernel
ScatteredVel(N, gridMin, pos, vel1, vel2, table, perm, last, oob) ==
  LET g == GridTables(N, gridMin, pos, table, perm, last, oob)
      raw == ScatteredRaw(N, pos, vel1, g.boid, g.keys, g.start, g.end, g.table, oob)
  IN  [vel2 |-> kernUpdateVelNeighborSearchScattered(N, raw, g.boid, vel2),
       raw |-> Tab([b \in Idx(N) |-> raw[CHOOSE k \in Idx(N) : g.boid[k] = b]]),
       pos |-> pos, grid |-> g]

\* the kernels of stepSimulationCoherentGrid up to the velocity kernel; pos is
\* the rearranged position buffer
CoherentVel(N, gridMin, pos, vel1, table, perm, last, oob) ==
  LET g == GridTables(N, gridMin, pos, table, perm, last, oob)
      re == RearangeVelAndPos(N, g.boid, pos, vel1)
      raw == CoherentRaw(N, re.arrPos, re.arrVel, g.keys, g.start, g.end, g.table, oob)
  IN  [vel2 |-> kernUpdateVelNeighborSearchCoherent(N, raw), raw |-> raw,
       pos |-> re.arrPos, grid |-> g]

(***************************************************************************)
(* State machine.                                                          *)
(***************************************************************************)
Init ==
  /\ phase = "Uninitialized"
  /\ numObjects = 0
  /\ dev_pos = << >>
  /\ dev_vel1 = << >>
  /\ dev_vel2 = << >>
  /\ devBoidIndex = << >>
  /\ devGridCellnumber = << >>
  /\ dev_gridCellStartIndices = << >>
  /\ dev_gridCellEndIndices = << >>
  /\ gridCellIndex = << >>
  /\ gridMinimum = vec3(0, 0, 0)
  /\ lastOp = "none"
  /\ lastDt = 0
  /\ prevPos = << >>
  /\ prevVel = << >>
  /\ rawVel = << >>
  /\ steps = 0
  /\ hostFn = "idle"
  /\ hostPc = 0
  /\ stream = << >>
  /\ alive = {}
  /\ exited = FALSE
  /\ lastError = FALSE
  /\ failedAt = "none"
  /\ ranAfterFailure = FALSE
  /\ ranReleased = FALSE
  /\ stageLog = << >>
  /\ roleLog = << >>
  /\ hazard = FALSE

\* Boids::initSimulation(N): positions are seeded inside the start area, the
\* velocity buffers keep whatever the allocation holds, the int tables are
\* allocated and not read before a grid step writes them
initSimulation ==
  /\ phase = "Uninitialized"
  /\ \E N \in 1 .. MaxN :
       /\ numObjects' = N
       /\ dev_pos' \in StartPositions(N)
       /\ dev_vel1' \in [Idx(N) -> VelChoices]
       /\ dev_vel2' = [i \in Idx(N) |-> JunkVec]
       /\ devBoidIndex' = [i \in Idx(N) |-> 0]
       /\ devGridCellnumber' = [i \in Idx(N) |-> 0]
       /\ dev_gridCellStartIndices' = [i \in Idx(N) |-> 0]
       /\ dev_gridCellEndIndices' = [i \in Idx(N) |-> 0]
  /\ gridCellIndex' = << >>
  /\ gridMinimum' = VSub(gridMinimum, vec3(halfGridWidth, halfGridWidth, halfGridWidth))
  /\ phase' = "Initialized"
  /\ lastOp' = "init"
  /\ UNCHANGED << lastDt, prevPos, prevVel, rawVel, steps, hostVars >>

\* what every step call records about itself
Record(op, dt) ==
  /\ lastOp' = op
  /\ lastDt' = dt
  /\ prevPos' = dev_pos
  /\ prevVel' = dev_vel1
  /\ steps' = steps + 1

CanStep == phase = "Initialized" /\ steps < MaxSteps

stepSimulationNaive ==
  /\ CanStep
  /\ LET vel2 == kernUpdateVelocityBruteForce(numObjects, dev_pos, dev_vel1)
     IN  \E dt \in DtChoices :
           /\ dev_pos' = kernUpdatePos(numObjects, dt, dev_pos, vel2)
           /\ dev_vel1' = vel2
           /\ dev_vel2' = vel2
           /\ rawVel' = BruteForceRaw(numObjects, dev_pos, dev_vel1)
           /\ Record("naive", dt)
  /\ UNCHANGED << phase, numObjects, devBoidIndex, devGridCellnumber,
                  dev_gridCellStartIndices, dev_gridCellEndIndices,
                  gridCellIndex, gridMinimum, hostVars >>

\* the end of both grid steps: kernUpdatePos on the position buffer r.pos with
\* the new velocities, then the copies into dev_vel1 (and dev_pos)
GridWrites(r, dt) ==
  /\ dev_pos' = kernUpdatePos(numObjects, dt, r.pos, r.vel2)
  /\ dev_vel1' = r.vel2
  /\ dev_vel2' = r.vel2
  /\ rawVel' = r.raw
  /\ devBoidIndex' = r.grid.boid
  /\ devGridCellnumber' = r.grid.keys
  /\ dev_gridCellStartIndices' = r.grid.start
  /\ dev_gridCellEndIndices' = r.grid.end
  /\ gridCellIndex' = r.grid.table

\* the cell ids kernComputeIndices computes from the current positions
CurrentKeys == kernComputeIndices(numObjects, gridMinimum, dev_pos).gridIndices

stepSimulationScatteredGrid ==
  /\ CanStep
  /\ \E perm \in SortOrders(numObjects, CurrentKeys) :
       LET keys == Tab([k \in Idx(numObjects) |-> CurrentKeys[perm[k]]])
       IN  \E last \in LastWriters(numObjects, keys),
              oob \in OobChoices(numObjects, keys) :
             LET r == ScatteredVel(numObjects, gridMinimum, dev_pos, dev_vel1,
                                   dev_vel2, gridCellIndex, perm, last, oob)
             IN  \E dt \in DtChoices : GridWrites(r, dt) /\ Record("scattered", dt)
  /\ UNCHANGED << phase, numObjects, gridMinimum, hostVars >>

stepSimulationCoherentGrid ==
  /\ CanStep
  /\ \E perm \in SortOrders(numObjects, CurrentKeys) :
       LET keys == Tab([k \in Idx(numObjects) |-> CurrentKeys[perm[k]]])
       IN  \E last \in LastWriters(numObjects, keys),
              oob \in OobChoices(numObjects, keys) :
             LET r == CoherentVel(numObjects, gridMinimum, dev_pos, dev_vel1,
                                  gridCellIndex, perm, last, oob)
             IN  \E dt \in DtChoices : GridWrites(r, dt) /\ Record("coherent", dt)
  /\ UNCHANGED << phase, numObjects, gridMinimum, hostVars >>

\* Boids::endSimulation: every buffer is released
endSimulation ==
  /\ phase = "Initialized"
  /\ phase' = "TornDown"
  /\ lastOp' = "end"
  /\ UNCHANGED << numObjects, dev_pos, dev_vel1, dev_vel2, devBoidIndex,
                  devGridCellnumber, dev_gridCellStartIndices,
                  dev_gridCellEndIndices, gridCellIndex, gridMinimum, lastDt,
                  prevPos, prevVel, rawVel, steps, hostVars >>

Next ==
  \/ initSimulation
  \/ stepSimulationNaive
  \/ stepSimulationScatteredGrid
  \/ stepSimulationCoherentGrid
  \/ endSimulation

Spec == Init /\ [][Next]_vars

(***************************************************************************)
(* The host program.  Each public function is the list of CUDA calls it    *)
(* makes, in source order.  A kernel launch, a device-to-device copy and   *)
(* the sort are queued on the default stream (no launch names a stream)    *)
(* and the device works the queue off; what a kernel computes is modelled  *)
(* by the step actions above, here a call carries the buffers it reads and *)
(* writes.  A cudaMalloc or a launch may fail.                             *)
(***************************************************************************)
Call(kind, name, stage, reads, writes) ==
  [kind |-> kind, name |-> name, stage |-> stage, reads |-> reads, writes |-> writes]

\* kernel <<<fullBlocksPerGrid, blockSize>>>(...)
Launch(name, stage, reads, writes) == Call("launch", name, stage, reads, writes)

\* cudaMalloc((void**)&buf, ...)
Malloc(buf) == Call("malloc", buf, "none", {}, {buf})

\* checkCUDAErrorWithLine(msg)
Check == Call("check", "checkCUDAError", "none", {}, {})

\* cudaThreadSynchronize()
Sync == Call("sync", "cudaThreadSynchronize", "none", {}, {})

\* cudaMemcpy(dst, src, ..., cudaMemcpyDeviceToDevice)
Memcpy(dst, src, stage) == Call("memcpy", "cudaMemcpy", stage, {src}, {dst})

\* cudaFree(buf)
Free(buf) == Call("free", buf, "none", {}, {})

\* cudaMalloc followed by its check, as initSimulation allocates
Alloc(buf) == << Malloc(buf), Check >>

GridTableBufs ==
  {"devGridCellnumber", "devBoidIndex", "dev_gridCellStartIndices",
   "dev_gridCellEndIndices", "gridCellIndex"}

initSimulationCalls ==
  Alloc("dev_pos") \o Alloc("dev_vel1") \o Alloc("dev_vel2")
    \o << Launch("kernGenerateRandomPosArray", "seed", {}, {"dev_pos"}), Check >>
    \o Alloc("devGridCellnumber") \o Alloc("devBoidIndex")
    \o Alloc("dev_gridCellStartIndices") \o Alloc("dev_gridCellEndIndices")
    \o Alloc("gridCellIndex") \o << Sync >>

stepSimulationNaiveCalls ==
  << Launch("kernUpdateVelocityBruteForce", "query",
            {"dev_pos", "dev_vel1"}, {"dev_vel2"}),
     Sync,
     Launch("kernUpdatePos", "integrate", {"dev_pos", "dev_vel2"}, {"dev_pos"}),
     Sync,
     Memcpy("dev_vel1", "dev_vel2", "swap"),
     Sync >>

\* the calls both grid steps start with, up to the head table
GridTableCalls ==
  << Launch("kernComputeIndices", "index", {"dev_pos"},
            {"devBoidIndex", "devGridCellnumber"}),
     Sync,
     Launch("InitializeGridCellIndex", "reset", {}, {"gridCellIndex"}),
     Sync,
     Call("sort", "thrust::sort_by_key", "sort",
          {"devGridCellnumber", "devBoidIndex"}, {"devGridCellnumber", "devBoidIndex"}),
     Sync,
     Launch("kernIdentifyCellStartEnd", "range", {"devGridCellnumber"},
            {"dev_gridCellStartIndices", "dev_gridCellEndIndices"}),
     Sync,
     Launch("renewGridCellIndex", "head",
            {"dev_gridCellStartIndices", "devGridCellnumber"}, {"gridCellIndex"}),
     Sync >>

stepSimulationScatteredGridCalls ==
  GridTableCalls
    \o << Launch("kernUpdateVelNeighborSearchScattered", "query",
                 GridTableBufs \cup {"dev_pos", "dev_vel1"}, {"dev_vel2"}),
          Sync,
          Launch("kernUpdatePos", "integrate", {"dev_pos", "dev_vel2"}, {"dev_pos"}),
          Sync,
          Memcpy("dev_vel1", "dev_vel2", "swap"),
          Sync >>

stepSimulationCoherentGridCalls ==
  GridTableCalls
    \o << Malloc("rearrangePos"),
          Malloc("rearrangeVel"),
          Launch("RearangeVelAndPos", "gather",
                 {"devBoidIndex", "dev_pos", "dev_vel1"},
                 {"rearrangePos", "rearrangeVel"}),
          Sync,
          Launch("kernUpdateVelNeighborSearchCoherent", "query",
                 GridTableBufs \cup {"rearrangePos", "rearrangeVel"}, {"dev_vel2"}),
          Launch("kernUpdatePos", "integrate", {"rearrangePos", "dev_vel2"},
                 {"rearrangePos"}),
          Sync,
          Memcpy("dev_vel1", "dev_vel2", "swap"),
          Sync,
          Memcpy("dev_pos", "rearrangePos", "publish"),
          Sync,
          Free("rearrangePos"),
          Free("rearrangeVel") >>

endSimulationCalls ==
  << Free("dev_vel1"), Free("dev_vel2"), Free("dev_pos"),
     Free("devGridCellnumber"), Free("devBoidIndex"),
     Free("dev_gridCellStartIndices"), Free("dev_gridCellEndIndices"),
     Free("gridCellIndex") >>

StepFns ==
  {"stepSimulationNaive", "stepSimulationScatteredGrid", "stepSimulationCoherentGrid"}

HostCalls(fn) ==
  CASE fn = "initSimulation" -> initSimulationCalls
    [] fn = "stepSimulationNaive" -> stepSimulationNaiveCalls
    [] fn = "stepSimulationScatteredGrid" -> stepSimulationScatteredGridCalls
    [] fn = "stepSimulationCoherentGrid" -> stepSimulationCoherentGridCalls
    [] fn = "endSimulation" -> endSimulationCalls
    [] OTHER -> << >>

\* the call the host is about to make
NextCall == HostCalls(hostFn)[hostPc]

HostRunning ==
  ~exited /\ hostFn # "idle" /\ hostPc \in 1 .. Len(HostCalls(hostFn))

\* a public function is entered: initSimulation once, a step at any time
\* after it (no step function looks at the state of the buffers), endSimulation
\* once
HostEnter ==
  /\ hostFn = "idle" /\ ~exited
  /\ \E fn \in StepFns \cup {"initSimulation", "endSimulation"} :
       /\ fn = "initSimulation" => phase = "Uninitialized"
       /\ fn = "endSimulation" => phase = "Initialized"
       /\ fn \in StepFns => phase # "Uninitialized" /\ steps < MaxSteps
       /\ hostFn' = fn
       /\ steps' = IF fn \in StepFns THEN steps + 1 ELSE steps
       /\ numObjects' \in IF fn = "initSimulation" THEN 1 .. MaxN ELSE {numObjects}
  /\ hostPc' = 1
  /\ stageLog' = << >>
  /\ UNCHANGED << phase, dataVars, stream, alive, exited, lastError, failedAt,
                  ranAfterFailure, ranReleased, roleLog, hazard >>

\* a failed call (kind "malloc" or "launch") leaves an error behind for
\* cudaGetLastError
Fails(kind) ==
  /\ lastError' = TRUE
  /\ failedAt' = IF failedAt = "none" THEN kind ELSE failedAt

HostMalloc ==
  /\ HostRunning /\ NextCall.kind = "malloc"
  /\ \E ok \in BOOLEAN :
       IF ok THEN alive' = alive \cup {NextCall.name} /\ UNCHANGED << lastError, failedAt >>
       ELSE alive' = alive /\ Fails("malloc")
  /\ hostPc' = hostPc + 1
  /\ UNCHANGED << phase, numObjects, steps, dataVars, hostFn, stream, exited,
                  ranAfterFailure, ranReleased, stageLog, roleLog, hazard >>

\* checkCUDAError: cudaGetLastError, and exit(EXIT_FAILURE) on an error
HostCheck ==
  /\ HostRunning /\ NextCall.kind = "check"
  /\ exited' = lastError
  /\ lastError' = FALSE
  /\ hostPc' = IF lastError THEN hostPc ELSE hostPc + 1
  /\ UNCHANGED << phase, numObjects, steps, dataVars, hostFn, stream, alive,
                  failedAt, ranAfterFailure, ranReleased, stageLog, roleLog, hazard >>

\* the units of work of a queued call: one per particle for a kernel over the
\* particles, one for the reset kernel, the sort and a copy
UnitsOf(c) ==
  IF c.kind = "launch" /\ c.name # "InitializeGridCellIndex" THEN Idx(numObjects) ELSE {0}

\* a launch, the sort or a copy: queued on the default stream, the host goes
\* on; a launch that fails queues nothing; late marks work queued after a
\* failure
HostLaunch ==
  /\ HostRunning /\ NextCall.kind \in {"launch", "sort", "memcpy"}
  /\ \E ok \in IF NextCall.kind = "launch" THEN BOOLEAN ELSE {TRUE} :
       IF ok
       THEN /\ stream' = Append(stream, [call |-> NextCall, units |-> UnitsOf(NextCall),
                                          done |-> {}, late |-> failedAt # "none"])
            /\ UNCHANGED << lastError, failedAt >>
       ELSE stream' = stream /\ Fails("launch")
  /\ hostPc' = hostPc + 1
  /\ UNCHANGED << phase, numObjects, steps, dataVars, hostFn, alive, exited,
                  ranAfterFailure, ranReleased, stageLog, roleLog, hazard >>

\* cudaThreadSynchronize returns when the stream is empty
HostSync ==
  /\ HostRunning /\ NextCall.kind = "sync"
  /\ stream = << >>
  /\ hostPc' = hostPc + 1
  /\ UNCHANGED << phase, numObjects, steps, dataVars, hostFn, stream, alive,
                  exited, lastError, failedAt, ranAfterFailure, ranReleased,
                  stageLog, roleLog, hazard >>

\* cudaFree waits for the device and releases the buffer
HostFree ==
  /\ HostRunning /\ NextCall.kind = "free"
  /\ stream = << >>
  /\ alive' = alive \ {NextCall.name}
  /\ hostPc' = hostPc + 1
  /\ UNCHANGED << phase, numObjects, steps, dataVars, hostFn, stream, exited,
                  lastError, failedAt, ranAfterFailure, ranReleased, stageLog,
                  roleLog, hazard >>

HostReturn ==
  /\ ~exited /\ hostFn # "idle" /\ hostPc = Len(HostCalls(hostFn)) + 1
  /\ hostFn' = "idle"
  /\ hostPc' = 0
  /\ phase' = CASE hostFn = "initSimulation" -> "Initialized"
                [] hostFn = "endSimulation" -> "TornDown"
                [] OTHER -> phase
  /\ UNCHANGED << numObjects, steps, dataVars, stream, alive, exited, lastError,
                  failedAt, ranAfterFailure, ranReleased, stageLog, roleLog, hazard >>

\* work launched without a stream goes to the default stream, which runs its
\* work in order: only the oldest queued call executes
AnyQueued(q) == 1 .. Len(q)

Eligible(q) == {1}

VelBufs == {"dev_vel1", "dev_vel2"}

\* the velocity buffer the calls of a step function read as current and the
\* one its velocity kernel writes
RolesOf(fn) ==
  LET calls == { HostCalls(fn)[k] : k \in 1 .. Len(HostCalls(fn)) }
  IN  [cur |-> VelBufs \cap UNION { c.reads : c \in { d \in calls : d.stage \in {"gather", "query"} } },
       next |-> VelBufs \cap UNION { c.writes : c \in { d \in calls : d.stage = "query" } }]

\* the device completes one unit of an executing call
DeviceRun ==
  /\ ~exited /\ stream # << >>
  /\ \E k \in Eligible(stream) \cap (1 .. Len(stream)) :
       \E u \in stream[k].units \ stream[k].done :
         LET w == stream[k]
             c == w.call
             starts == w.done = {}
             ends == w.done \cup {u} = w.units
         IN  /\ stream' = IF ends
                          THEN SubSeq(stream, 1, k - 1) \o SubSeq(stream, k + 1, Len(stream))
                          ELSE [stream EXCEPT ![k].done = @ \cup {u}]
             /\ stageLog' = IF starts THEN Append(stageLog, c.stage) ELSE stageLog
             /\ roleLog' = IF starts /\ c.stage = "query"
                           THEN Append(roleLog, RolesOf(hostFn))
                           ELSE roleLog
             /\ hazard' = (hazard \/ \E j \in 1 .. (k - 1) :
                                       stream[j].call.writes \cap c.reads # {})
             /\ ranReleased' = (ranReleased \/ ~((c.reads \cup c.writes) \subseteq alive))
             /\ ranAfterFailure' = (ranAfterFailure \/ w.late)
  /\ UNCHANGED << phase, numObjects, steps, dataVars, hostFn, hostPc, alive,
                  exited, lastError, failedAt >>

HostNext ==
  \/ HostEnter
  \/ HostMalloc
  \/ HostCheck
  \/ HostLaunch
  \/ HostSync
  \/ HostFree
  \/ HostReturn
  \/ DeviceRun

HostSpec == Init /\ [][HostNext]_vars

(***************************************************************************)
(* Properties.                                                             *)
(***************************************************************************)
StepOps == {"naive", "scattered", "coherent"}

Stepped == lastOp \in StepOps

GridStepped == lastOp \in {"scattered", "coherent"}

\* C1: after initSimulation and after every step of any strategy with any
\* time delta, every coordinate of every position in dev_pos lies in
\* [-scene_scale, scene_scale].
C1_WrapInvariant ==
  phase # "Uninitialized" =>
    \A i \in Idx(numObjects), c \in 1 .. 3 :
      -scene_scale <= dev_pos[i][c] /\ dev_pos[i][c] <= scene_scale

\* a grid step has just wrapped one particle at the upper face in x and at
\* the lower face in z (no start position lies on a face)
C1_Witness ==
  /\ GridStepped
  /\ \E i \in Idx(numObjects) :
       dev_pos[i][1] = -scene_scale /\ dev_pos[i][3] = scene_scale

\* v is w rescaled to the speed cap: same direction, length maxSpeed, up to
\* the rounding of the lattice (two units per component)
RescaledToCap(v, w) ==
  LET tol == 2
      cross(a, b) == v[a] * w[b] - v[b] * w[a]
      lim(a, b) == tol * (Abs(w[a]) + Abs(w[b]))
  IN  /\ v[1] * w[1] + v[2] * w[2] + v[3] * w[3] > 0
      /\ Abs(cross(1, 2)) <= lim(1, 2)
      /\ Abs(cross(2, 3)) <= lim(2, 3)
      /\ Abs(cross(1, 3)) <= lim(1, 3)
      /\ Len2(v) >= (maxSpeed - 2 * tol) * (maxSpeed - 2 * tol)

\* C2: after every step, every velocity in dev_vel2 and dev_vel1 has length
\* at most maxSpeed; it is the candidate velocity itself when that is within
\* the cap, and the candidate rescaled to the cap in its own direction when
\* it is not.
C2_ClampInvariant ==
  Stepped =>
    \A i \in Idx(numObjects) :
      /\ Len2(dev_vel2[i]) <= maxSpeed * maxSpeed
      /\ dev_vel1[i] = dev_vel2[i]
      /\ Len2(rawVel[i]) <= maxSpeed * maxSpeed => dev_vel2[i] = rawVel[i]
      /\ Len2(rawVel[i]) > maxSpeed * maxSpeed => RescaledToCap(dev_vel2[i], rawVel[i])

\* a step has clamped one candidate above the cap and has passed another,
\* non-zero one through unchanged
C2_Witness ==
  /\ Stepped
  /\ \E i, k \in Idx(numObjects) :
       /\ Len2(rawVel[i]) > maxSpeed * maxSpeed
       /\ Len2(rawVel[k]) <= maxSpeed * maxSpeed
       /\ rawVel[k] # vec3(0, 0, 0)

\* the cell ids of the particles before the last step, by particle index
PrevKeys == kernComputeIndices(numObjects, gridMinimum, prevPos).gridIndices

\* the velocity buffer one scattered step may leave, given the outcomes
ScatteredOutcomes(N, pos, vel) ==
  LET keys0 == kernComputeIndices(N, gridMinimum, pos).gridIndices
  IN  { ScatteredVel(N, gridMinimum, pos, vel, vel, << >>, c[1], c[2], c[3]).vel2 :
          c \in UNION { UNION { { <<perm, last, oob>> :
                                    oob \in OobChoices(N, Tab([k \in Idx(N) |-> keys0[perm[k]]])) } :
                                  last \in LastWriters(N, Tab([k \in Idx(N) |-> keys0[perm[k]]])) } :
                        perm \in SortOrders(N, keys0) } }

\* C3: one brute-force step and one scattered-grid step from the same
\* positions and velocities leave the same velocity for every particle id.
C3_BruteForceScatteredSame ==
  lastOp = "scattered" =>
    dev_vel1 = kernUpdateVelocityBruteForce(numObjects, prevPos, prevVel)

\* C4 (one step, k = 1): a coherent-grid step leaves in dev_pos[i] and
\* dev_vel1[i] what a scattered-grid step from the same positions and
\* velocities, with the same time delta, leaves there.
C4_ScatteredCoherentSame ==
  lastOp = "coherent" =>
    \E v \in ScatteredOutcomes(numObjects, prevPos, prevVel) :
      /\ dev_vel1 = v
      /\ dev_pos = kernUpdatePos(numObjects, lastDt, prevPos, v)

\* the leftmost and the rightmost sorted offset holding the key of offset i
Leftmost(i) ==
  CHOOSE k \in Idx(numObjects) :
    /\ devGridCellnumber[k] = devGridCellnumber[i]
    /\ \A m \in Idx(numObjects) : devGridCellnumber[m] = devGridCellnumber[i] => k <= m

Rightmost(i) ==
  CHOOSE k \in Idx(numObjects) :
    /\ devGridCellnumber[k] = devGridCellnumber[i]
    /\ \A m \in Idx(numObjects) : devGridCellnumber[m] = devGridCellnumber[i] => m <= k

\* C5: for every sorted offset i, gridCellStartIndices[i] is the leftmost and
\* gridCellEndIndices[i] the rightmost offset whose key equals key[i].
C5_CellRangeCorrect ==
  GridStepped =>
    \A i \in Idx(numObjects) :
      /\ dev_gridCellStartIndices[i] = Leftmost(i)
      /\ dev_gridCellEndIndices[i] = Rightmost(i)

\* C6: after the sort stage of a grid step the keys are non-decreasing, the
\* (key, value) pairs are those kernComputeIndices produced, the values are a
\* permutation of 0..N-1 and key[k] is the cell id of particle value[k].
C6_SortCorrect ==
  GridStepped =>
    /\ NonDecreasing(numObjects, devGridCellnumber)
    /\ { <<devGridCellnumber[k], devBoidIndex[k]>> : k \in Idx(numObjects) }
         = { <<PrevKeys[i], i>> : i \in Idx(numObjects) }
    /\ devBoidIndex \in Perms(numObjects)
    /\ \A k \in Idx(numObjects) :
         devGridCellnumber[k] = CellOf(prevPos[devBoidIndex[k]], gridMinimum)

\* a grid step whose sort moved a pair and met two equal keys
C6_Witness ==
  /\ GridStepped
  /\ \E k \in Idx(numObjects) : devBoidIndex[k] # k
  /\ \E a, b \in Idx(numObjects) : a # b /\ devGridCellnumber[a] = devGridCellnumber[b]

\* C7: after the head-lookup stage of a grid step, gridCellIndex[c] is the
\* first sorted offset whose key is c, for every cell c that holds a particle.
C7_CellHeadIsFirstOffset ==
  GridStepped =>
    \A k \in Idx(numObjects) :
      CellHead(gridCellIndex, devGridCellnumber[k]) = Leftmost(k)

\* C8: after a grid step gridCellIndex[c] = -1 for every cell id c in
\* 0..gridCellCount-1 that no particle was mapped to in that step (the cells
\* outside the table's written entries hold -1 by construction of CellHead).
C8_EmptyCellsStayEmpty ==
  GridStepped =>
    \A c \in (DOMAIN gridCellIndex) \cap (0 .. (gridCellCount - 1)) :
      (\A i \in Idx(numObjects) : PrevKeys[i] # c) => CellHead(gridCellIndex, c) = -1

\* a second grid step has reset the entry of a cell a particle has left
C8_Witness ==
  /\ GridStepped
  /\ steps = 2
  /\ \E c \in DOMAIN gridCellIndex :
       /\ \A i \in Idx(numObjects) : PrevKeys[i] # c
       /\ gridCellIndex[c] = -1

RECURSIVE SumOver(_, _)
\* the sum of the vectors arr[j], j in S
SumOver(arr, S) ==
  IF S = {} THEN vec3(0, 0, 0)
  ELSE LET j == CHOOSE j \in S : TRUE
       IN  VAdd(arr[j], SumOver(arr, S \ {j}))

\* the other particles closer than d to particle P before the last step
Near(P, d) ==
  { j \in Idx(numObjects) \ {P} : Len2(VSub(prevPos[j], prevPos[P])) < d * d }

\* the velocity the three rules give particle P from the previous state
RuleVelocity(P) ==
  LET n1 == Near(P, rule1Distance)
      n2 == Near(P, rule2Distance)
      n3 == Near(P, rule3Distance)
      cohesion == IF n1 = {} THEN vec3(0, 0, 0)
                  ELSE rule1Scale(VSub(VDiv(SumOver(prevPos, n1), Cardinality(n1)),
                                       prevPos[P]))
      separation == rule2Scale(VSub(VMul(prevPos[P], Cardinality(n2)),
                                    SumOver(prevPos, n2)))
      alignment == IF n3 = {} THEN vec3(0, 0, 0)
                   ELSE rule3Scale(VDiv(SumOver(prevVel, n3), Cardinality(n3)))
  IN  VAdd(VAdd(VAdd(prevVel[P], cohesion), separation), alignment)

\* the two-particle example: (0,0,0) and (1,0,0) at rest
IsExample ==
  /\ numObjects = 2
  /\ prevPos = (0 :> vec3(0, 0, 0)) @@ (1 :> vec3(1 * PosFP, 0, 0))
  /\ prevVel = (0 :> vec3(0, 0, 0)) @@ (1 :> vec3(0, 0, 0))

\* C9: a brute-force step writes, for every particle P, old velocity +
\* K1 * (mean position of the others within R1 - P's position, zero if none)
\* + K2 * (sum over the others within R2 of P's position - theirs)
\* + K3 * (mean velocity of the others within R3, zero if none), clamped; the
\* two-particle example gives (-0.09, 0, 0) and (+0.09, 0, 0).
C9_BruteForceRuleSemantics ==
  lastOp = "naive" =>
    /\ \A P \in Idx(numObjects) :
         /\ rawVel[P] = RuleVelocity(P)
         /\ dev_vel1[P] = ClampSpeed(RuleVelocity(P))
    /\ IsExample =>
         dev_vel1 = (0 :> vec3(-(9 * VelFP) \div 100, 0, 0))
                      @@ (1 :> vec3((9 * VelFP) \div 100, 0, 0))

\* the brute-force step from the two-particle example with dt = 1
C9_Witness == lastOp = "naive" /\ IsExample /\ lastDt = 1

\* C10: when a coherent-grid step returns, dev_pos[i] is the new position of
\* the particle that had id i before the step: its old position advanced by
\* the velocity now in dev_vel1[i].
C10_CoherentCanonicalOrder ==
  lastOp = "coherent" =>
    \A i \in Idx(numObjects) :
      dev_pos[i] = UpdatePosOne(prevPos[i], dev_vel1[i], lastDt)

\* C11: once endSimulation has run, a call of a step function fails at once
\* (also when none of its CUDA calls fails): it ends the run before its second
\* call, queues no work and no stage executes on the released buffers.
C11_FailFastAfterTeardown ==
  /\ (phase = "TornDown" /\ hostFn \in StepFns /\ failedAt = "none") =>
       /\ stream = << >>
       /\ stageLog = << >>
       /\ hostPc > 1 => exited
  /\ failedAt = "none" => ~ranReleased

\* C12: whenever an allocation or a launch has failed, the run ends: no work
\* queued after the failure executes and the function does not return.
C12_FailuresAreFatal ==
  failedAt # "none" =>
    /\ ~ranAfterFailure
    /\ hostFn # "idle"
    /\ \A k \in 1 .. Len(stream) : ~stream[k].late

\* C13: in renewGridCellIndex all threads whose sorted offset carries the
\* same cell id write the same value, so every order of the writes leaves the
\* table the grid step has left.
C13_HeadLookupRaceIdempotent ==
  GridStepped =>
    /\ \A i, j \in Idx(numObjects) :
         devGridCellnumber[i] = devGridCellnumber[j] =>
           dev_gridCellStartIndices[i] = dev_gridCellStartIndices[j]
    /\ \A last \in LastWriters(numObjects, devGridCellnumber) :
         renewGridCellIndex(numObjects, dev_gridCellStartIndices,
                            InitializeGridCellIndex(gridCellIndex),
                            devGridCellnumber, last) = gridCellIndex

\* the slot of the next velocity buffer thread index of the last step's
\* velocity kernel wrote
WriteSlot(index) == IF lastOp = "scattered" THEN devBoidIndex[index] ELSE index

\* the sorted offsets thread index of the last grid step's velocity kernel
\* walked, given what the reads outside the arrays yielded
SlotsTested(index, oob) ==
  CandidateSlots(numObjects, index, devGridCellnumber, dev_gridCellStartIndices,
                 dev_gridCellEndIndices, gridCellIndex, oob)

\* the elements of pos and of the current velocity buffer thread index read
\* for its candidates
ParticleReads(index, oob) ==
  LET slots == SlotsTested(index, oob)
  IN  { IF lastOp = "scattered"
        THEN BoidAt(numObjects, devBoidIndex, oob, slots[t])
        ELSE slots[t] : t \in 1 .. Len(slots) }

\* C14: in each velocity kernel every thread reads only elements of the
\* position buffer and of the current velocity buffer, which the kernel does
\* not write, and writes one slot of the next velocity buffer; the slots of
\* the N threads are pairwise distinct and cover 0..N-1.
C14_SnapshotReadsDisjointWrites ==
  Stepped =>
    /\ \A fn \in StepFns : \A k \in 1 .. Len(HostCalls(fn)) :
         HostCalls(fn)[k].stage = "query" =>
           HostCalls(fn)[k].reads \cap HostCalls(fn)[k].writes = {}
    /\ \A a, b \in Idx(numObjects) : WriteSlot(a) = WriteSlot(b) => a = b
    /\ { WriteSlot(a) : a \in Idx(numObjects) } = Idx(numObjects)
    /\ GridStepped =>
         \A oob \in OobChoices(numObjects, devGridCellnumber) :
           \A index \in Idx(numObjects) :
             /\ \A t \in 1 .. Len(SlotsTested(index, oob)) :
                  SlotsTested(index, oob)[t] \in Idx(numObjects)
             /\ ParticleReads(index, oob) \subseteq Idx(numObjects)

\* the cell coordinates the query decodes from a cell id
gridIndex1Dto3D(gridIndex) ==
  LET gridIdx3Z == DivT(gridIndex, gridSideCount * gridSideCount)
      gridIdx3Y == DivT(gridIndex - gridIdx3Z * gridSideCount * gridSideCount,
                        gridSideCount)
  IN  << gridIndex - gridIdx3Z * gridSideCount * gridSideCount
           - gridIdx3Y * gridSideCount, gridIdx3Y, gridIdx3Z >>

\* the cells of the grid in the 3x3x3 block around cell gridIndex
BlockCells(gridIndex) ==
  LET c == gridIndex1Dto3D(gridIndex)
  IN  { NeighborCell(c[1], c[2], c[3], t) : t \in 1 .. 27 } \ {-1}

\* the sorted offsets of the particles in the block around the cell of the
\* particle at offset index, without that particle
BlockSlots(index) ==
  { s \in Idx(numObjects) \ {index} :
      devGridCellnumber[s] \in BlockCells(devGridCellnumber[index]) }

\* C17: in a grid step the candidates tested for a focal particle are exactly
\* the particles whose cell lies in the in-range part of the 3x3x3 block
\* around its cell, each tested once, and never the focal particle itself.
C17_CandidatesAreTheBlock ==
  GridStepped =>
    \A oob \in OobChoices(numObjects, devGridCellnumber) :
      \A index \in Idx(numObjects) :
        LET slots == SlotsTested(index, oob)
        IN  /\ \A t, u \in 1 .. Len(slots) : slots[t] = slots[u] => t = u
            /\ \A t \in 1 .. Len(slots) : slots[t] # index
            /\ { slots[t] : t \in 1 .. Len(slots) } = BlockSlots(index)

\* the sorted key array of the last grid step, whatever the tie order
SortedPrevKeys(perm) == Tab([k \in Idx(numObjects) |-> PrevKeys[perm[k]]])

\* C18: one scattered-grid step from fixed positions and velocities leaves
\* the same velocity and position for every particle id whatever relative
\* order the sort gives to the particles that share a cell id.
C18_TieOrderIndependent ==
  lastOp = "scattered" =>
    \A p1, p2 \in SortOrders(numObjects, PrevKeys) :
      \A last \in LastWriters(numObjects, SortedPrevKeys(p1)) :
        \A oob \in OobChoices(numObjects, SortedPrevKeys(p1)) :
          LET v1 == ScatteredVel(numObjects, gridMinimum, prevPos, prevVel, prevVel,
                                 << >>, p1, last, oob).vel2
              v2 == ScatteredVel(numObjects, gridMinimum, prevPos, prevVel, prevVel,
                                 << >>, p2, last, oob).vel2
          IN  /\ v1 = v2
              /\ kernUpdatePos(numObjects, lastDt, prevPos, v1)
                   = kernUpdatePos(numObjects, lastDt, prevPos, v2)

\* the indices of particleGridIndices thread index of kernIdentifyCellStartEnd
\* reads
KeyReads(N, keys, oob, index) ==
  (IF index = 0 THEN {} ELSE (WalkDown(N, keys, oob, index) - 1) .. index)
    \cup (IF index # 0 /\ index = N - 1 THEN {}
          ELSE index .. (WalkUp(N, keys, oob, index) + 1))

\* the indices of gridCellEndIndices the neighbour loop of thread index reads
HeadsRead(index) ==
  LET gridIndex == devGridCellnumber[index]
      c == gridIndex1Dto3D(gridIndex)
  IN  { CellHead(gridCellIndex, NeighborCell(c[1], c[2], c[3], t)) :
          t \in VisitedCells(c[1], c[2], c[3], gridIndex, gridCellIndex) }

\* C19: in a grid step kernIdentifyCellStartEnd reads the key array only at
\* 0..N-1 and writes only start and end values in 0..N-1, and the query reads
\* particleArrayIndices, pos, vel and gridCellEndIndices only at 0..N-1.
C19_GridTablesMemorySafe ==
  GridStepped =>
    \A oob \in OobChoices(numObjects, devGridCellnumber) :
      \A index \in Idx(numObjects) :
        /\ KeyReads(numObjects, devGridCellnumber, oob, index) \subseteq Idx(numObjects)
        /\ dev_gridCellStartIndices[index] \in Idx(numObjects)
        /\ dev_gridCellEndIndices[index] \in Idx(numObjects)
        /\ HeadsRead(index) \subseteq Idx(numObjects)
        /\ \A t \in 1 .. Len(SlotsTested(index, oob)) :
             SlotsTested(index, oob)[t] \in Idx(numObjects)
        /\ ParticleReads(index, oob) \subseteq Idx(numObjects)

\* C20: in every grid step of a run started by initSimulation (cell width 10,
\* 22 cells per axis, grid minimum -110 per axis) every particle gets a cell
\* id in 0..gridCellCount-1 and never -1, so renewGridCellIndex writes no
\* entry -1, and the coordinates the query decodes from the cell id lie in
\* 0..gridSideCount-1.
C20_EveryParticleInRealCell ==
  GridStepped =>
    /\ gridCellWidth = 10 * PosFP
    /\ gridSideCount = 22
    /\ gridMinimum = vec3(-110 * PosFP, -110 * PosFP, -110 * PosFP)
    /\ \A i \in Idx(numObjects) :
         /\ \A c \in 1 .. 3 : -scene_scale <= prevPos[i][c] /\ prevPos[i][c] <= scene_scale
         /\ PrevKeys[i] # -1
         /\ PrevKeys[i] \in 0 .. (gridCellCount - 1)
         /\ devGridCellnumber[i] \in 0 .. (gridCellCount - 1)
         /\ \A c \in 1 .. 3 :
              gridIndex1Dto3D(devGridCellnumber[i])[c] \in 0 .. (gridSideCount - 1)
         /\ LET c == gridIndex1Dto3D(PrevKeys[i])
            IN  c = << CellCoord(prevPos[i][1], gridMinimum[1]),
                       CellCoord(prevPos[i][2], gridMinimum[2]),
                       CellCoord(prevPos[i][3], gridMinimum[3]) >>
    /\ DOMAIN gridCellIndex \subseteq 0 .. (gridCellCount - 1)

\* a grid step with a particle on a lower and on an upper face of the scene:
\* it falls in cell 1 of the one axis and in the last cell of the other
C20_Witness ==
  /\ GridStepped
  /\ \E i \in Idx(numObjects) :
       /\ prevPos[i][1] = -scene_scale
       /\ prevPos[i][3] = scene_scale
       /\ gridIndex1Dto3D(PrevKeys[i])[1] = 1
       /\ gridIndex1Dto3D(PrevKeys[i])[3] = gridSideCount - 1

\* C15: in every step exactly one velocity buffer is the current one and the
\* other the next one, and each step has the roles of the step before it
\* swapped.
C15_PingPongRolesSwap ==
  \A k \in 1 .. Len(roleLog) :
    /\ Cardinality(roleLog[k].cur) = 1
    /\ Cardinality(roleLog[k].next) = 1
    /\ roleLog[k].cur # roleLog[k].next
    /\ k > 1 => /\ roleLog[k].cur = roleLog[k - 1].next
                /\ roleLog[k].next = roleLog[k - 1].cur

\* the stage order of the claim, and the part of it a strategy has
StageOrder == << "index", "sort", "range", "head", "query", "integrate", "swap" >>

ExpectedStages(fn) ==
  IF fn = "stepSimulationNaive" THEN << "query", "integrate", "swap" >> ELSE StageOrder

NamedStages(log) ==
  SelectSeq(log, LAMBDA x : \E k \in 1 .. Len(StageOrder) : StageOrder[k] = x)

IsPrefix(a, b) == Len(a) <= Len(b) /\ a = SubSeq(b, 1, Len(a))

PairedVel(k, oob) ==
  LET slots == SlotsTested(k, oob)
      from(arr, n) == IF n \in Idx(numObjects) THEN arr[devBoidIndex[n]] ELSE JunkVec
      cpos == Tab([t \in 1 .. Len(slots) |-> from(prevPos, slots[t])])
      cvel == Tab([t \in 1 .. Len(slots) |-> from(prevVel, slots[t])])
  IN  ClampSpeed(GridFinalSpeed(prevPos[devBoidIndex[k]], prevVel[devBoidIndex[k]],
                                cpos, cvel))

\* C21: after a coherent-grid step the sorted particle indices are a
\* permutation p of 0..N-1, and for every slot k dev_vel1[k] is the new
\* velocity and dev_pos[k] the new position of the one particle that was in
\* slot p[k] before the step: none is lost or duplicated and no position is
\* paired with another particle's velocity.
C21_CoherentPairing ==
  lastOp = "coherent" =>
    /\ DOMAIN devBoidIndex = Idx(numObjects)
    /\ \A a, b \in Idx(numObjects) : devBoidIndex[a] = devBoidIndex[b] => a = b
    /\ { devBoidIndex[k] : k \in Idx(numObjects) } = Idx(numObjects)
    /\ \A k \in Idx(numObjects) :
         /\ devGridCellnumber[k] = PrevKeys[devBoidIndex[k]]
         /\ dev_pos[k] = UpdatePosOne(prevPos[devBoidIndex[k]], dev_vel1[k], lastDt)
    /\ \E oob \in OobChoices(numObjects, devGridCellnumber) :
         \A k \in Idx(numObjects) : dev_vel1[k] = PairedVel(k, oob)

\* a coherent step whose sort moved a particle to another slot, the particles
\* of the two slots having had different velocities
C21_Witness ==
  /\ lastOp = "coherent"
  /\ \E k \in Idx(numObjects) :
       /\ devBoidIndex[k] # k
       /\ prevVel[devBoidIndex[k]] # prevVel[k]
       /\ prevPos[devBoidIndex[k]] # prevPos[k]

====
